---- MODULE Spec2Model ----
(***************************************************************************)
(* Model of detect_secrets/main.py: the command dispatch of the `scan` and *)
(* `audit` verbs (main, handle_scan_action, handle_audit_action) and the   *)
(* ad-hoc line table (scan_adhoc_string).                                  *)
(*                                                                         *)
(* A process run is a walk of pc through the statements of main.py.  The   *)
(* collaborators that main.py imports (baseline.create, audit.*, scan_line,*)
(* get_plugins, ...) are inputs: each call draws its outcome, a value or a *)
(* raised exception, from a small set.                                     *)
(***************************************************************************)
EXTENDS Integers, Sequences, FiniteSets, TLC

VARIABLES
    pc,                 \* position in main.py ("start", "main_29", "scan_42", ...)
    args,               \* the argparse.Namespace returned by parse_args
    disk,               \* the baseline file args.baseline_filename on disk
    disk_before,        \* history: the baseline file when the process started
    secrets,            \* the local SecretsCollection `secrets`
    stdout,             \* what the process printed, in order
    calls,              \* history: collaborator calls made, in order
    raised,             \* exception in flight / that ended the process, or "none"
    handled,            \* history: exception caught by an except clause, or "none"
    ret,                \* main's return value: <<0>>, or <<>> while it has not returned
    registered_plugins, \* scan_adhoc_string: the list get_plugins() returns
    line_secrets,       \* scan_adhoc_string: what scan_line(line) yields, in order
    adhoc_result        \* scan_adhoc_string: its outcome

vars == <<pc, args, disk, disk_before, secrets, stdout, calls, raised, handled, ret,
          registered_plugins, line_secrets, adhoc_result>>

adhoc_vars == <<registered_plugins, line_secrets, adhoc_result>>

---------------------------------------------------------------------------
(* Bounds *)

\* number of distinct finding identities (filename, secretType, hashedValue)
MaxFindings == 2
\* number of detector plugins that can be registered
MaxPlugins == 3
\* number of secrets scan_line yields for one line
MaxSecrets == 2

---------------------------------------------------------------------------
(* Data *)

\* A finding identity stands for one (filename, secretType, hashedValue) triple.
Idents == 1..MaxFindings

Labels == {"unlabeled", "real", "false_positive"}

\* A SecretsCollection: the findings it holds, each with its audit label.
ResultSets == UNION {[S -> Labels] : S \in SUBSET Idents}

\* What a scan produces: findings that no audit has labelled yet.
FreshResultSets == {[f \in S |-> "unlabeled"] : S \in SUBSET Idents}

EmptyResultSet == [f \in {} |-> "unlabeled"]

NoFile == [exists |-> FALSE, data |-> EmptyResultSet]

File(rs) == [exists |-> TRUE, data |-> rs]

Disks == {NoFile} \cup {File(rs) : rs \in ResultSets}

None == [some |-> FALSE, val |-> EmptyResultSet]

Some(v) == [some |-> TRUE, val |-> v]

\* args.string: absent (None), the flag without a value (const True), or a literal.
StringArgs == {[tag |-> "none", val |-> <<>>],
               [tag |-> "bool", val |-> <<>>],
               [tag |-> "str", val |-> <<>>],
               [tag |-> "str", val |-> <<120>>]}

\* Python truthiness of args.string: None and '' are falsy, True and 'x' truthy.
Truthy(s) == \/ s.tag = "bool"
             \/ s.tag = "str" /\ Len(s.val) > 0

\* Standard input as a list of lines: empty, one empty line, one line of text.
Stdins == {<<>>, << <<>> >>, << <<120>> >>}

ScanArgs(d) ==
    [action : {"scan"}, list_all_plugins : BOOLEAN, string : StringArgs,
     only_allowlisted : BOOLEAN, slim : BOOLEAN,
     baseline : {None} \cup (IF d.exists THEN {Some(d.data)} ELSE {})]

AuditArgs ==
    [action : {"audit"}, stats : BOOLEAN, report : BOOLEAN, diff : BOOLEAN,
     json : BOOLEAN, only_real : BOOLEAN, only_false : BOOLEAN]

NoActionArgs == [action |-> "none"]

Unparsed == [action |-> "unparsed"]

Out(kind, data) == [kind |-> kind, data |-> data]

---------------------------------------------------------------------------
(* scan_adhoc_string *)

\* Strings are sequences of code points, so that sorting and padding are computed.
FalseStr == <<70, 97, 108, 115, 101>>

ColonSpace == <<58, 32>>

NewLine == <<10>>

\* What a plugin's format_scan_result can return for a match: 'True', 'True (3)'.
FormattedResults == {<<84, 114, 117, 101>>, <<84, 114, 117, 101, 32, 40, 51, 41>>}

\* Class names 'B', 'Aw', 'Bwv', 'Awvu', ...: registration (index) order differs
\* from name order, lengths differ, and some names are prefixes of others.
ClassName(i) == <<65 + (i % 2)>> \o [j \in 1..(i - 1) |-> 120 - j]

Plugin(i) == [classname |-> ClassName(i), secret_type |-> i]

PluginPool == {Plugin(i) : i \in 1..MaxPlugins}

IsInjective(f) == \A i, j \in DOMAIN f : f[i] = f[j] => i = j

\* get_plugins(): one instance per configured class name, in settings order.
Registries ==
    UNION {{r \in [1..n -> PluginPool] : IsInjective(r)} : n \in 0..MaxPlugins}

SecretTypes(plugins) == {plugins[i].secret_type : i \in DOMAIN plugins}

\* scan_line(line): secrets found by the registered plugins, in detection order.
LineSecrets(plugins) ==
    UNION {[1..n -> [type : SecretTypes(plugins), formatted : FormattedResults]] :
           n \in 0..MaxSecrets}

\* Python's str comparison: by code point, a proper prefix sorts first.
RECURSIVE StrLess(_, _)
StrLess(a, b) ==
    IF Len(b) = 0 THEN FALSE
    ELSE IF Len(a) = 0 THEN TRUE
    ELSE IF Head(a) # Head(b) THEN Head(a) < Head(b)
    ELSE StrLess(Tail(a), Tail(b))

\* Insert p after every element whose key is not greater (keeps sorted() stable).
RECURSIVE InsertByName(_, _)
InsertByName(p, sorted) ==
    IF Len(sorted) = 0 THEN <<p>>
    ELSE IF StrLess(p.classname, Head(sorted).classname)
         THEN <<p>> \o sorted
         ELSE <<Head(sorted)>> \o InsertByName(p, Tail(sorted))

RECURSIVE SortedByName(_)
SortedByName(plugins) ==
    IF Len(plugins) = 0 THEN <<>>
    ELSE InsertByName(plugins[Len(plugins)], SortedByName(SubSeq(plugins, 1, Len(plugins) - 1)))

MaxOf(S) == CHOOSE m \in S : \A x \in S : x <= m

\* '{:N}'.format(name): left-justified, padded with spaces to N, never truncated.
PadTo(name, n) ==
    IF Len(name) >= n THEN name ELSE name \o [k \in 1..(n - Len(name)) |-> 32]

RECURSIVE JoinLines(_)
JoinLines(rows) ==
    IF Len(rows) = 0 THEN <<>>
    ELSE IF Len(rows) = 1 THEN rows[1]
    ELSE rows[1] \o NewLine \o JoinLines(Tail(rows))

\* The for loop of lines 98-102: a later secret of a type overwrites an earlier one.
RECURSIVE RecordSecrets(_, _)
RecordSecrets(results, found) ==
    IF Len(found) = 0 THEN results
    ELSE RecordSecrets(
             [t \in DOMAIN results \cup {Head(found).type} |->
                 IF t = Head(found).type THEN Head(found).formatted ELSE results[t]],
             Tail(found))

\* AdhocRows without sorted(): the rows follow the registration order.
AdhocRows_RegistrationOrder(plugins, results) ==
    LET width == MaxOf({Len(plugins[i].classname) : i \in DOMAIN plugins})
    IN  [i \in DOMAIN plugins |->
            PadTo(plugins[i].classname, width) \o ColonSpace \o results[plugins[i].secret_type]]

AdhocRows(plugins, results) ==
    LET width == MaxOf({Len(plugins[i].classname) : i \in DOMAIN plugins})
        ordered == SortedByName(plugins)
    IN  [i \in DOMAIN ordered |->
            PadTo(ordered[i].classname, width) \o ColonSpace \o results[ordered[i].secret_type]]

scan_adhoc_string(plugins, found) ==
    LET results == RecordSecrets([t \in SecretTypes(plugins) |-> FalseStr], found)
    IN  IF Len(plugins) = 0
        THEN [status |-> "ValueError", text |-> <<>>]   \* max([]) raises
        ELSE [status |-> "returned", text |-> JoinLines(AdhocRows(plugins, results))]

NotRun == [status |-> "not_run", text |-> <<>>]

\* The outcomes scan_adhoc_string can have, over every registry and line.
AdhocStatuses ==
    UNION {{scan_adhoc_string(r, s).status : s \in LineSecrets(r)} : r \in Registries}

---------------------------------------------------------------------------
(* SecretsCollection.merge *)

\* secrets.merge(old): the new scan decides which findings exist; a finding that
\* the old baseline also holds takes over the old audit label.
merge(new, old) ==
    [f \in DOMAIN new |->
        IF f \in DOMAIN old /\ new[f] = "unlabeled" THEN old[f] ELSE new[f]]

---------------------------------------------------------------------------
(* main *)

Init ==
    /\ pc = "start"
    /\ args = Unparsed
    /\ disk \in Disks
    /\ disk_before = disk
    /\ secrets = EmptyResultSet
    /\ stdout = <<>>
    /\ calls = <<>>
    /\ raised = "none"
    /\ handled = "none"
    /\ ret = <<>>
    /\ registered_plugins = <<>>
    /\ line_secrets = <<>>
    /\ adhoc_result = NotRun

\* An exception nobody catches leaves the handler and main: the process dies.
Raise(e) ==
    /\ raised' = e
    /\ pc' = "crashed"

\* args = parse_args(argv): --baseline loads the baseline file into args.baseline.
ParseArgs ==
    /\ pc = "start"
    /\ args' \in ScanArgs(disk) \cup AuditArgs \cup {NoActionArgs}
    /\ pc' = "main_29"
    /\ UNCHANGED <<disk, disk_before, secrets, stdout, calls, raised, handled, ret,
                   adhoc_vars>>

\* if args.action == 'scan': ... elif args.action == 'audit': ...
Dispatch ==
    /\ pc = "main_29"
    /\ pc' = CASE args.action = "scan" -> "scan_42"
               [] args.action = "audit" -> "audit_120"
               [] OTHER -> "main_34"
    /\ UNCHANGED <<args, disk, disk_before, secrets, stdout, calls, raised, handled,
                   ret, adhoc_vars>>

\* return 0
Return ==
    /\ pc = "main_34"
    /\ ret' = <<0>>
    /\ pc' = "done"
    /\ UNCHANGED <<args, disk, disk_before, secrets, stdout, calls, raised, handled,
                   adhoc_vars>>

\* The next invocation of the program: a new process, the same baseline file.
NextProcess ==
    /\ pc \in {"done", "crashed"}
    /\ pc' = "start"
    /\ args' = Unparsed
    /\ disk_before' = disk
    /\ secrets' = EmptyResultSet
    /\ stdout' = <<>>
    /\ calls' = <<>>
    /\ raised' = "none"
    /\ handled' = "none"
    /\ ret' = <<>>
    /\ UNCHANGED <<disk, adhoc_vars>>

---------------------------------------------------------------------------
(* handle_scan_action *)

\* if args.list_all_plugins: print the plugin names; return
ScanListAllPlugins ==
    /\ pc = "scan_42"
    /\ IF args.list_all_plugins
       THEN /\ calls' = Append(calls, "get_settings")
            /\ stdout' = Append(stdout, Out("plugins", EmptyResultSet))
            /\ pc' = "main_34"
       ELSE /\ pc' = "scan_48"
            /\ UNCHANGED <<calls, stdout>>
    /\ UNCHANGED <<args, disk, disk_before, secrets, raised, handled, ret, adhoc_vars>>

\* if args.string: read the line (stdin when the flag had no value), print the
\* table of scan_adhoc_string; return
ScanString ==
    /\ pc = "scan_48"
    /\ IF Truthy(args.string)
       THEN \E stdin \in Stdins, status \in AdhocStatuses :
              IF args.string.tag = "bool" /\ Len(stdin) = 0
              THEN /\ Raise("IndexError")     \* splitlines()[0] of no lines
                   /\ UNCHANGED <<calls, stdout>>
              ELSE /\ calls' = Append(calls, "scan_adhoc_string")
                   /\ IF status = "returned"
                      THEN /\ stdout' = Append(stdout, Out("adhoc", EmptyResultSet))
                           /\ pc' = "main_34"
                           /\ UNCHANGED raised
                      ELSE /\ Raise(status)
                           /\ UNCHANGED stdout
       ELSE /\ pc' = "scan_56"
            /\ UNCHANGED <<calls, stdout, raised>>
    /\ UNCHANGED <<args, disk, disk_before, secrets, handled, ret, adhoc_vars>>

\* ScanOnlyAllowlisted without the `return` of line 67.
ScanOnlyAllowlisted_FallsThrough ==
    /\ pc = "scan_56"
    /\ IF args.only_allowlisted
       THEN \E found \in FreshResultSets :
              /\ secrets' = found
              /\ calls' = calls \o <<"get_files_to_scan",
                                     "scan_for_allowlisted_secrets_in_file">>
              /\ stdout' = Append(stdout, Out("json", found))
       ELSE UNCHANGED <<secrets, calls, stdout>>
    /\ pc' = "scan_69"
    /\ UNCHANGED <<args, disk, disk_before, raised, handled, ret, adhoc_vars>>

\* if args.only_allowlisted: collect the allowlisted secrets of every file,
\* print them as JSON; return
ScanOnlyAllowlisted ==
    /\ pc = "scan_56"
    /\ IF args.only_allowlisted
       THEN \E found \in FreshResultSets :
              /\ secrets' = found
              /\ calls' = calls \o <<"get_files_to_scan",
                                     "scan_for_allowlisted_secrets_in_file">>
              /\ stdout' = Append(stdout, Out("json", found))
              /\ pc' = "main_34"
       ELSE /\ pc' = "scan_69"
            /\ UNCHANGED <<secrets, calls, stdout>>
    /\ UNCHANGED <<args, disk, disk_before, raised, handled, ret, adhoc_vars>>

ScanErrors == {"InvalidBaselineError", "OSError"}

\* secrets = baseline.create(...): the full scan; an error it raises propagates
ScanCreate ==
    /\ pc = "scan_69"
    /\ calls' = Append(calls, "baseline.create")
    /\ \/ \E found \in FreshResultSets :
            /\ secrets' = found
            /\ pc' = "scan_75"
            /\ UNCHANGED raised
       \/ \E e \in ScanErrors :
            /\ Raise(e)
            /\ UNCHANGED secrets
    /\ UNCHANGED <<args, disk, disk_before, stdout, handled, ret, adhoc_vars>>

\* ScanMerge without the call of merge: the fresh scan is saved as it is.
ScanMerge_SkipsMerge ==
    /\ pc = "scan_75"
    /\ args.baseline.some
    /\ calls' = Append(calls, "merge")
    /\ pc' = "scan_86"
    /\ UNCHANGED <<args, disk, disk_before, secrets, stdout, raised, handled, ret,
                   adhoc_vars>>

\* ScanMerge with the save in a `finally`: an error of merge still reaches line 86.
ScanMerge_SavesAnyway ==
    /\ pc = "scan_75"
    /\ args.baseline.some
    /\ calls' = Append(calls, "merge")
    /\ \/ /\ secrets' = merge(secrets, args.baseline.val)
          /\ UNCHANGED raised
       \/ \E e \in ScanErrors :
            /\ raised' = e
            /\ UNCHANGED secrets
    /\ pc' = "scan_86"
    /\ UNCHANGED <<args, disk, disk_before, stdout, handled, ret, adhoc_vars>>

\* if args.baseline is not None: secrets.merge(args.baseline)
ScanMerge ==
    /\ pc = "scan_75"
    /\ args.baseline.some
    /\ calls' = Append(calls, "merge")
    /\ \/ /\ secrets' = merge(secrets, args.baseline.val)
          /\ pc' = "scan_86"
          /\ UNCHANGED raised
       \/ \E e \in ScanErrors :
            /\ Raise(e)
            /\ UNCHANGED secrets
    /\ UNCHANGED <<args, disk, disk_before, stdout, handled, ret, adhoc_vars>>

\* ScanSave with the print of line 88 outside the `else`.
ScanSave_AlsoPrints ==
    /\ pc = "scan_86"
    /\ calls' = Append(calls, "save_to_file")
    /\ disk' = File(secrets)
    /\ stdout' = Append(stdout, Out(IF args.slim THEN "json_slim" ELSE "json", secrets))
    /\ pc' = "main_34"
    /\ UNCHANGED <<args, disk_before, secrets, raised, handled, ret, adhoc_vars>>

\* baseline.save_to_file(secrets, args.baseline_filename)
ScanSave ==
    /\ pc = "scan_86"
    /\ calls' = Append(calls, "save_to_file")
    /\ disk' = File(secrets)
    /\ pc' = "main_34"
    /\ UNCHANGED <<args, disk_before, secrets, stdout, raised, handled, ret, adhoc_vars>>

\* else: print(json.dumps(baseline.format_for_output(secrets, is_slim_mode=...)))
ScanPrint ==
    /\ pc = "scan_75"
    /\ ~args.baseline.some
    /\ stdout' = Append(stdout, Out(IF args.slim THEN "json_slim" ELSE "json", secrets))
    /\ pc' = "main_34"
    /\ UNCHANGED <<args, disk, disk_before, secrets, calls, raised, handled, ret,
                   adhoc_vars>>

---------------------------------------------------------------------------
(* handle_audit_action *)

\* An audit sub-workflow that cannot load its baseline raises InvalidBaselineError,
\* which the try statement of handle_audit_action catches.
AuditCall(name, onSuccess) ==
    /\ calls' = Append(calls, name)
    /\ \/ onSuccess
       \/ /\ raised' = "InvalidBaselineError"
          /\ pc' = "audit_151"
          /\ UNCHANGED stdout

\* if args.stats: stats = calculate_statistics_for_baseline(args.filename[0])
AuditStats ==
    /\ pc = "audit_120"
    /\ IF args.stats
       THEN AuditCall("calculate_statistics_for_baseline",
                      /\ pc' = "audit_122"
                      /\ UNCHANGED <<stdout, raised>>)
       ELSE /\ pc' = "audit_130"
            /\ UNCHANGED <<calls, stdout, raised>>
    /\ UNCHANGED <<args, disk, disk_before, secrets, handled, ret, adhoc_vars>>

\* AuditStatsPrint with `if args.report` in place of `elif`: the report test follows.
AuditStatsPrint_FallsThrough ==
    /\ pc = "audit_122"
    /\ IF args.diff
       THEN /\ Raise("NotImplementedError")
            /\ UNCHANGED stdout
       ELSE /\ stdout' = Append(stdout, Out(IF args.json THEN "stats_json" ELSE "stats_str",
                                            EmptyResultSet))
            /\ pc' = "audit_130"
            /\ UNCHANGED raised
    /\ UNCHANGED <<args, disk, disk_before, secrets, calls, handled, ret, adhoc_vars>>

\* if args.diff: raise NotImplementedError; else print the statistics
AuditStatsPrint ==
    /\ pc = "audit_122"
    /\ IF args.diff
       THEN /\ Raise("NotImplementedError")   \* not an InvalidBaselineError: not caught
            /\ UNCHANGED stdout
       ELSE /\ stdout' = Append(stdout, Out(IF args.json THEN "stats_json" ELSE "stats_str",
                                            EmptyResultSet))
            /\ pc' = "main_34"
            /\ UNCHANGED raised
    /\ UNCHANGED <<args, disk, disk_before, secrets, calls, handled, ret, adhoc_vars>>

\* elif args.report: print(json.dumps(generate_report(filename[0], class_to_print)))
AuditReport ==
    /\ pc = "audit_130"
    /\ IF args.report
       THEN LET class_to_print == IF args.only_real THEN "report_real"
                                  ELSE IF args.only_false THEN "report_false"
                                  ELSE "report_all"
            IN  AuditCall("generate_report",
                          /\ stdout' = Append(stdout, Out(class_to_print, EmptyResultSet))
                          /\ pc' = "main_34"
                          /\ UNCHANGED raised)
       ELSE /\ pc' = "audit_145"
            /\ UNCHANGED <<calls, stdout, raised>>
    /\ UNCHANGED <<args, disk, disk_before, secrets, handled, ret, adhoc_vars>>

\* else: compare_baselines(filename[0], filename[1]) if args.diff,
\* audit_baseline(filename[0]) otherwise
AuditInteractive ==
    /\ pc = "audit_145"
    /\ AuditCall(IF args.diff THEN "compare_baselines" ELSE "audit_baseline",
                 /\ pc' = "main_34"
                 /\ UNCHANGED <<stdout, raised>>)
    /\ UNCHANGED <<args, disk, disk_before, secrets, handled, ret, adhoc_vars>>

\* AuditExcept with `raise` in place of `pass`.
AuditExcept_Reraises ==
    /\ pc = "audit_151"
    /\ handled' = raised
    /\ pc' = "crashed"
    /\ UNCHANGED <<args, disk, disk_before, secrets, stdout, calls, raised, ret,
                   adhoc_vars>>

\* except InvalidBaselineError: pass
AuditExcept ==
    /\ pc = "audit_151"
    /\ handled' = raised
    /\ raised' = "none"
    /\ pc' = "main_34"
    /\ UNCHANGED <<args, disk, disk_before, secrets, stdout, calls, ret, adhoc_vars>>

---------------------------------------------------------------------------

Next ==
    \/ ParseArgs
    \/ Dispatch
    \/ Return
    \/ NextProcess
    \/ ScanListAllPlugins
    \/ ScanString
    \/ ScanOnlyAllowlisted
    \/ ScanCreate
    \/ ScanMerge
    \/ ScanSave
    \/ ScanPrint
    \/ AuditStats
    \/ AuditStatsPrint
    \/ AuditReport
    \/ AuditInteractive
    \/ AuditExcept

Spec == Init /\ [][Next]_vars

---------------------------------------------------------------------------
(* scan_adhoc_string as a function of the registry and of what scan_line yields *)

InitAdhoc ==
    /\ pc = "adhoc_91"
    /\ args = Unparsed
    /\ disk = NoFile
    /\ disk_before = NoFile
    /\ secrets = EmptyResultSet
    /\ stdout = <<>>
    /\ calls = <<>>
    /\ raised = "none"
    /\ handled = "none"
    /\ ret = <<>>
    /\ registered_plugins \in Registries
    /\ line_secrets \in LineSecrets(registered_plugins)
    /\ adhoc_result = NotRun

CallScanAdhocString ==
    /\ pc = "adhoc_91"
    /\ adhoc_result' = scan_adhoc_string(registered_plugins, line_secrets)
    /\ pc' = "adhoc_116"
    /\ UNCHANGED <<args, disk, disk_before, secrets, stdout, calls, raised, handled, ret,
                   registered_plugins, line_secrets>>

NextAdhoc == CallScanAdhocString

SpecAdhoc == InitAdhoc /\ [][NextAdhoc]_vars

---------------------------------------------------------------------------
(* Vocabulary of the properties *)

Called(name) == \E i \in DOMAIN calls : calls[i] = name

IsScan == args.action = "scan"

IsAudit == args.action = "audit"

Ended == pc \in {"done", "crashed"}

\* The handler has returned normally (main is at or past its `return 0`).
Returned == pc \in {"main_34", "done"}

\* The branch the decision order of the specification selects from the flags that
\* were supplied on the command line.
SuppliedBranch ==
    IF args.list_all_plugins THEN "list_all_plugins"
    ELSE IF args.string.tag # "none" THEN "string"
    ELSE IF args.only_allowlisted THEN "only_allowlisted"
    ELSE "default"

BranchCalls(b) ==
    CASE b = "list_all_plugins" -> {"get_settings"}
      [] b = "string" -> {"scan_adhoc_string"}
      [] b = "only_allowlisted" -> {"get_files_to_scan",
                                    "scan_for_allowlisted_secrets_in_file"}
      [] OTHER -> {"baseline.create", "merge", "save_to_file"}

\* C1: in a scan, only the first branch (list-all-plugins > string >
\* only-allowlisted > default) whose flag was supplied acts: every collaborator
\* call made belongs to it, and whenever a string was supplied (a literal of any
\* value, or the flag alone) without list-all-plugins, the ad-hoc evaluator has
\* run by the end of the process.
C1_SuppliedFlagSelectsBranch ==
    IsScan =>
        /\ \A i \in DOMAIN calls : calls[i] \in BranchCalls(SuppliedBranch)
        /\ (SuppliedBranch = "string" /\ Ended) => Called("scan_adhoc_string")

\* C2: a scan never both prints and writes the baseline; when the full scan
\* (baseline.create) ran and the handler returned, exactly one of the two
\* happened: with a baseline, the merged secrets are in the file and nothing was
\* printed; without one, the secrets were printed once as JSON and the file is
\* as it was.
C2_PrintXorSave ==
    IsScan =>
        /\ ~(Len(stdout) > 0 /\ Called("save_to_file"))
        /\ (Called("baseline.create") /\ Returned) =>
              IF args.baseline.some
              THEN /\ calls = <<"baseline.create", "merge", "save_to_file">>
                   /\ disk = File(secrets)
                   /\ stdout = <<>>
              ELSE /\ stdout = <<Out(IF args.slim THEN "json_slim" ELSE "json", secrets)>>
                   /\ ~Called("save_to_file")
                   /\ disk = disk_before

C2_Witness ==
    /\ IsScan /\ pc = "done" /\ args.baseline.some
    /\ Called("save_to_file") /\ disk # disk_before /\ stdout = <<>>

\* C3: with only-allowlisted set (no list-all-plugins, no ad-hoc string), the scan
\* never calls merge or save_to_file, the baseline file stays as it was, with or
\* without a baseline, and what it has done on return is print the allowlisted
\* secrets once as JSON.
C3_OnlyAllowlistedReadOnly ==
    (IsScan /\ ~args.list_all_plugins /\ ~Truthy(args.string) /\ args.only_allowlisted) =>
        /\ ~Called("merge")
        /\ ~Called("save_to_file")
        /\ ~Called("baseline.create")
        /\ disk = disk_before
        /\ pc # "crashed"
        /\ Returned => stdout = <<Out("json", secrets)>>

C3_Witness ==
    /\ IsScan /\ ~args.list_all_plugins /\ ~Truthy(args.string) /\ args.only_allowlisted
    /\ args.baseline.some /\ pc = "done" /\ Len(stdout) = 1
    /\ DOMAIN secrets # {}

\* C4: once the scan has saved the baseline, every finding that is both in the old
\* baseline and in the new scan is in the saved file with the audit label the old
\* baseline gave it.
C4_RetainedLabelsKept ==
    (IsScan /\ Called("save_to_file")) =>
        \A f \in DOMAIN args.baseline.val \cap DOMAIN secrets :
            /\ f \in DOMAIN disk.data
            /\ disk.data[f] = args.baseline.val[f]

C4_Witness ==
    /\ IsScan /\ pc = "done" /\ Called("save_to_file")
    /\ \E f \in DOMAIN args.baseline.val \cap DOMAIN disk.data :
          args.baseline.val[f] = "real"
    /\ \E h \in DOMAIN args.baseline.val : h \notin DOMAIN disk.data

AuditWorkflows == {"calculate_statistics_for_baseline", "generate_report",
                   "compare_baselines", "audit_baseline"}

ExpectedWorkflow ==
    IF args.stats THEN "calculate_statistics_for_baseline"
    ELSE IF args.report THEN "generate_report"
    ELSE IF args.diff THEN "compare_baselines"
    ELSE "audit_baseline"

\* C5: an audit starts at most one sub-workflow at any time, and once the
\* dispatch is past, exactly one: statistics if stats, else report if report,
\* else diff if diff, else interactive labeling.
C5_ExactlyOneWorkflow ==
    IsAudit =>
        /\ \A i \in DOMAIN calls : calls[i] \in AuditWorkflows
        /\ Len(calls) <= 1
        /\ pc \in {"audit_122", "audit_151", "main_34", "done", "crashed"} =>
              calls = <<ExpectedWorkflow>>

C5_Witness ==
    /\ IsAudit /\ args.stats /\ args.report /\ args.diff /\ Ended
    /\ calls = <<"calculate_statistics_for_baseline">>

\* C6: an audit with stats and diff both set always ends with NotImplementedError
\* raised out of the handler, with nothing printed, and without main returning 0.
C6_StatsDiffNotImplemented ==
    (IsAudit /\ args.stats /\ args.diff /\ Ended) =>
        /\ raised = "NotImplementedError"
        /\ stdout = <<>>
        /\ ret # <<0>>

\* C7: an InvalidBaselineError of an audit sub-workflow is caught by the handler:
\* the handler then returns with nothing printed and no further call made, the
\* process does not crash, and main returns 0; every process that ends without an
\* exception has returned 0, and only such a process has.
C7_InvalidBaselineSwallowed ==
    /\ handled # "none" =>
          /\ handled = "InvalidBaselineError"
          /\ IsAudit
          /\ Returned
          /\ raised = "none"
          /\ stdout = <<>>
          /\ Len(calls) = 1
    /\ (IsAudit /\ raised = "InvalidBaselineError") => (pc = "audit_151" /\ stdout = <<>>)
    /\ pc = "done" => (ret = <<0>> /\ raised = "none")
    /\ pc # "done" => ret = <<>>
    /\ pc = "crashed" <=> (raised # "none" /\ pc # "audit_151")

C7_Witness ==
    /\ IsAudit /\ handled = "InvalidBaselineError" /\ pc = "done" /\ ret = <<0>>

\* C8: in a scan, save_to_file is called only after baseline.create and merge,
\* with no exception raised; an exception of the scan or of the merge ends the
\* process without a return value, with save_to_file never called and the
\* baseline file as it was.
C8_SaveOnlyAfterScanAndMerge ==
    IsScan =>
        /\ Called("save_to_file") =>
              /\ calls = <<"baseline.create", "merge", "save_to_file">>
              /\ raised = "none"
        /\ (raised # "none") =>
              /\ ~Called("save_to_file")
              /\ disk = disk_before
              /\ pc = "crashed"
              /\ ret = <<>>
              /\ handled = "none"

C8_Witness ==
    /\ IsScan /\ args.baseline.some /\ Called("merge")
    /\ raised = "InvalidBaselineError" /\ pc = "crashed"
    /\ disk_before.data # EmptyResultSet

---------------------------------------------------------------------------
(* Reading the table scan_adhoc_string returns *)

\* str.split('\n') of a non-empty text; no rows for the empty text.
RECURSIVE SplitAt(_, _)
SplitAt(text, current) ==
    IF Len(text) = 0 THEN <<current>>
    ELSE IF <<Head(text)>> = NewLine THEN <<current>> \o SplitAt(Tail(text), <<>>)
    ELSE SplitAt(Tail(text), Append(current, Head(text)))

TableRows(text) == IF Len(text) = 0 THEN <<>> ELSE SplitAt(text, <<>>)

RECURSIVE StripRight(_)
StripRight(str) ==
    IF Len(str) > 0 /\ str[Len(str)] = 32
    THEN StripRight(SubSeq(str, 1, Len(str) - 1))
    ELSE str

NameWidth == MaxOf({0} \cup {Len(registered_plugins[i].classname) :
                                 i \in DOMAIN registered_plugins})

\* The detector name and the verdict a row shows.
RowName(row) == StripRight(SubSeq(row, 1, NameWidth))

RowVerdict(row) == SubSeq(row, NameWidth + Len(ColonSpace) + 1, Len(row))

ReturnedRows == TableRows(adhoc_result.text)

\* C9: for a line on which no detector finds anything, scan_adhoc_string returns
\* a table with exactly one row per registered detector, each showing 'False'.
C9_OneFalseRowPerDetector ==
    (pc = "adhoc_116" /\ line_secrets = <<>>) =>
        /\ adhoc_result.status = "returned"
        /\ Len(ReturnedRows) = Len(registered_plugins)
        /\ \A i \in DOMAIN registered_plugins :
              Cardinality({j \in DOMAIN ReturnedRows :
                              RowName(ReturnedRows[j]) = registered_plugins[i].classname}) = 1
        /\ \A j \in DOMAIN ReturnedRows : RowVerdict(ReturnedRows[j]) = FalseStr

Reorderings(plugins) ==
    {[i \in DOMAIN plugins |-> plugins[p[i]]] :
        p \in {q \in [DOMAIN plugins -> DOMAIN plugins] : IsInjective(q)}}

\* C10: the rows scan_adhoc_string returns are in strictly ascending order of
\* detector name, one per registered detector, whatever the line's secrets are,
\* and registering the same detectors in any other order gives the same outcome.
C10_RowsSortedByName ==
    pc = "adhoc_116" =>
        /\ adhoc_result.status = "returned" =>
              /\ Len(ReturnedRows) = Len(registered_plugins)
              /\ {RowName(ReturnedRows[j]) : j \in DOMAIN ReturnedRows}
                    = {registered_plugins[i].classname : i \in DOMAIN registered_plugins}
              /\ \A j \in 1..(Len(ReturnedRows) - 1) :
                    StrLess(RowName(ReturnedRows[j]), RowName(ReturnedRows[j + 1]))
        /\ \A other \in Reorderings(registered_plugins) :
              scan_adhoc_string(other, line_secrets) = adhoc_result

C10_Witness ==
    /\ pc = "adhoc_116" /\ adhoc_result.status = "returned"
    /\ Len(registered_plugins) = MaxPlugins
    /\ registered_plugins # SortedByName(registered_plugins)
    /\ Len(line_secrets) > 1
    /\ line_secrets[1].type = registered_plugins[1].secret_type

====
